---- MODULE Spec2Model ----
(***************************************************************************)
(* QMS_ice: baseline-corrected integration of mass-spectrometry traces.    *)
(*                                                                         *)
(* The model covers src/src/qms_integrate.py (integrate_signal,            *)
(* integrate_multiple_masses, integrate_photon_flux) and the integration   *)
(* and report part of src/main.py.  Floating-point samples are modelled as *)
(* exact rationals <<numerator, denominator>>; the pair <<0, 0>> is the    *)
(* not-a-number value.  The x axis (time in seconds, or temperature) is a  *)
(* sequence of integers.                                                   *)
(***************************************************************************)
EXTENDS Integers, Sequences, FiniteSets, TLC

(***************************************************************************)
(* Bounds of the model.                                                    *)
(***************************************************************************)
MaxX == 4          \* integrate_signal is called on x grids inside 0..MaxX
MaxY == 1          \* sample values are drawn from 0..MaxY
MaxMasses == 3     \* longest list of channel keys
MaxMin == 4        \* window bounds (minutes or Kelvin) are drawn from 0..MaxMin
MaxScale == 2      \* photon_scale is drawn from 1..MaxScale

(***************************************************************************)
(* Program constants.                                                      *)
(***************************************************************************)
SecondsPerMinute == 60     \* x_min = x_min_min * 60 ; t_min *= 60
MinSignalSamples == 3      \* if np.sum(mask) < 3: raise ValueError
MinFluxSamples == 2        \* if len(time_region) < 2: raise ValueError

(***************************************************************************)
(* Exact arithmetic standing for numpy's float64 arithmetic.               *)
(***************************************************************************)
Abs(n) == IF n < 0 THEN -n ELSE n

RECURSIVE GCD(_, _)
GCD(a, b) == IF b = 0 THEN a ELSE GCD(b, a % b)

NaN == <<0, 0>>

IsNaN(p) == p[2] = 0

Rat(n, d) ==
    IF d = 0 THEN NaN
    ELSE LET g == GCD(Abs(n), Abs(d))
             s == IF d < 0 THEN -1 ELSE 1
         IN  <<(s * n) \div g, (s * d) \div g>>

Num(n) == <<n, 1>>

Zero == Num(0)

RAdd(p, q) == IF IsNaN(p) \/ IsNaN(q) THEN NaN
              ELSE Rat(p[1] * q[2] + q[1] * p[2], p[2] * q[2])

RSub(p, q) == IF IsNaN(p) \/ IsNaN(q) THEN NaN
              ELSE Rat(p[1] * q[2] - q[1] * p[2], p[2] * q[2])

RMul(p, q) == IF IsNaN(p) \/ IsNaN(q) THEN NaN
              ELSE Rat(p[1] * q[1], p[2] * q[2])

\* A division by zero gives a non-finite value, modelled as NaN.
RDiv(p, q) == IF IsNaN(p) \/ IsNaN(q) THEN NaN
              ELSE Rat(p[1] * q[2], p[2] * q[1])

\* np.true_divide(num, den, out=np.zeros_like(den), where=den != 0)
GuardedDiv(p, q) == IF q = Zero THEN Zero ELSE RDiv(p, q)

(***************************************************************************)
(* Sequence helpers (numpy indexing).                                      *)
(***************************************************************************)
Reverse(s) == [k \in 1..Len(s) |-> s[Len(s) + 1 - k]]

RECURSIVE SelectMask(_, _)
\* s[mask] : the entries of s where mask is TRUE, in order
SelectMask(s, mask) ==
    IF s = <<>> THEN <<>>
    ELSE IF Head(mask) THEN <<Head(s)>> \o SelectMask(Tail(s), Tail(mask))
         ELSE SelectMask(Tail(s), Tail(mask))

RECURSIVE CountTrue(_)
\* np.sum(mask)
CountTrue(mask) ==
    IF mask = <<>> THEN 0
    ELSE (IF Head(mask) THEN 1 ELSE 0) + CountTrue(Tail(mask))

RECURSIVE RSum(_)
\* np.sum over a sequence of rationals
RSum(s) == IF s = <<>> THEN Zero ELSE RAdd(Head(s), RSum(Tail(s)))

(***************************************************************************)
(* scipy.integrate.simpson(y, x) on irregularly spaced samples.            *)
(***************************************************************************)
\* one parabolic segment of _basic_simpson over samples k, k+1, k+2
SimpsonPanel(y, x, k) ==
    LET h0 == Num(x[k + 1] - x[k])
        h1 == Num(x[k + 2] - x[k + 1])
        hsum == RAdd(h0, h1)
        hprod == RMul(h0, h1)
        h0divh1 == GuardedDiv(h0, h1)
    IN  RMul(RDiv(hsum, Num(6)),
             RAdd(RAdd(RMul(y[k], RSub(Num(2), GuardedDiv(Num(1), h0divh1))),
                       RMul(y[k + 1], RMul(hsum, GuardedDiv(hsum, hprod)))),
                  RMul(y[k + 2], RSub(Num(2), h0divh1))))

\* _basic_simpson over the first n samples (n odd)
BasicSimpson(y, x, n) ==
    RSum([j \in 1..((n - 1) \div 2) |-> SimpsonPanel(y, x, 2 * j - 1)])

\* correction for the last interval when the number of samples is even
LastIntervalCorrection(y, x) ==
    LET N == Len(y)
        h0 == Num(x[N - 1] - x[N - 2])
        h1 == Num(x[N] - x[N - 1])
        alpha == GuardedDiv(RAdd(RMul(Num(2), RMul(h1, h1)), RMul(Num(3), RMul(h0, h1))),
                            RMul(Num(6), RAdd(h1, h0)))
        beta == GuardedDiv(RAdd(RMul(h1, h1), RMul(Num(3), RMul(h0, h1))),
                           RMul(Num(6), h0))
        eta == GuardedDiv(RMul(h1, RMul(h1, h1)),
                          RMul(Num(6), RMul(h0, RAdd(h0, h1))))
    IN  RSub(RAdd(RMul(alpha, y[N]), RMul(beta, y[N - 1])), RMul(eta, y[N - 2]))

simpson(y, x) ==
    LET N == Len(y)
    IN  IF N % 2 = 0
        THEN IF N = 2
             THEN RMul(RMul(Rat(1, 2), Num(x[2] - x[1])), RAdd(y[2], y[1]))
             ELSE RAdd(BasicSimpson(y, x, N - 1), LastIntervalCorrection(y, x))
        ELSE BasicSimpson(y, x, N)

(***************************************************************************)
(* integrate_signal(x, y, x_min, x_max, correct_baseline,                  *)
(*                  show_plot, save_plot)                                  *)
(***************************************************************************)
\* the window taken as an open interval
WindowMask_Open(x, lo, hi) == [k \in 1..Len(x) |-> x[k] > lo /\ x[k] < hi]

\* mask = (x >= x_min) & (x <= x_max)
WindowMask(x, lo, hi) == [k \in 1..Len(x) |-> x[k] >= lo /\ x[k] <= hi]

\* the secant baseline with the intercept left out: slope * x_region
SecantBaseline_NoIntercept(x_region, y_region) ==
    LET n == Len(x_region)
        slope == RDiv(RSub(y_region[n], y_region[1]), Num(x_region[n] - x_region[1]))
    IN  [k \in 1..n |-> RMul(slope, Num(x_region[k]))]

\* the baseline with its slope taken from the first two selected samples
SecantBaseline_FirstStep(x_region, y_region) ==
    LET n == Len(x_region)
        slope == RDiv(RSub(y_region[2], y_region[1]), Num(x_region[2] - x_region[1]))
        intercept == RSub(y_region[1], RMul(slope, Num(x_region[1])))
    IN  [k \in 1..n |-> RAdd(RMul(slope, Num(x_region[k])), intercept)]

\* slope * x_region + intercept, the line through the first and last selected sample
SecantBaseline(x_region, y_region) ==
    LET n == Len(x_region)
        slope == RDiv(RSub(y_region[n], y_region[1]), Num(x_region[n] - x_region[1]))
        intercept == RSub(y_region[1], RMul(slope, Num(x_region[1])))
    IN  [k \in 1..n |-> RAdd(RMul(slope, Num(x_region[k])), intercept)]

\* np.zeros_like(y_region)
ZeroBaseline(y_region) == [k \in 1..Len(y_region) |-> Zero]

\* the call raised an exception of this kind: nothing is returned
Raised(kind) == [kind |-> kind, area |-> NaN, baseline |-> <<>>, mask |-> <<>>]

\* the call has not been made yet
NotCalled == Raised("none")

\* the off-by-one variant of the sample floor of integrate_signal
TooFewForSignal_OffByOne(mask) == CountTrue(mask) <= MinSignalSamples

\* if np.sum(mask) < 3
TooFewForSignal(mask) == CountTrue(mask) < MinSignalSamples

\* ax.set_ylim(min(y_region.min(), baseline.min())*0.9, max(...)*1.1): the minimum
\* and maximum of an array holding a not-a-number are not-a-number, and the axis
\* refuses such a limit with a ValueError
PlotRaises(y_region, baseline) ==
    \/ \E k \in 1..Len(y_region) : IsNaN(y_region[k])
    \/ \E k \in 1..Len(baseline) : IsNaN(baseline[k])

integrate_signal(x, y, lo, hi, correct_baseline, show_plot, save_plot) ==
    LET mask == WindowMask(x, lo, hi)
    IN  IF TooFewForSignal(mask)
        THEN Raised("ValueError")
        ELSE LET x_region == SelectMask(x, mask)
                 y_region == SelectMask(y, mask)
                 baseline == IF correct_baseline
                             THEN SecantBaseline(x_region, y_region)
                             ELSE ZeroBaseline(y_region)
                 y_corrected == [k \in 1..Len(y_region) |->
                                    RSub(y_region[k], baseline[k])]
             IN  IF (show_plot \/ save_plot) /\ PlotRaises(y_region, baseline)
                 THEN Raised("ValueError")
                 ELSE [kind |-> "ok",
                       area |-> simpson(y_corrected, x_region),
                       baseline |-> baseline,
                       mask |-> mask]

(***************************************************************************)
(* integrate_photon_flux(data, time_key, photon_key, photon_scale,         *)
(*                       integration_range, show_plot, save_plot)          *)
(* integration_range is [given, lo, hi]; given = FALSE stands for None.    *)
(***************************************************************************)
NoRange == [given |-> FALSE, lo |-> 0, hi |-> 0]

Range(lo, hi) == [given |-> TRUE, lo |-> lo, hi |-> hi]

\* if time_key not in data or photon_key not in data
MissingColumn(d, time_key, photon_key) ==
    time_key \notin DOMAIN d \/ photon_key \notin DOMAIN d

\* the floor of the channel integrator applied to the flux integrator
TooFewForFlux_FloorOfThree(time_region) == Len(time_region) < MinSignalSamples

\* if len(time_region) < 2
TooFewForFlux(time_region) == Len(time_region) < MinFluxSamples

\* the flux channel with the secant baseline of integrate_signal subtracted
FluxQuadrature_BaselineSubtracted(flux_region, time_region) ==
    LET baseline == SecantBaseline(time_region, flux_region)
    IN  simpson([k \in 1..Len(flux_region) |-> RSub(flux_region[k], baseline[k])],
                time_region)

\* photon_area = simpson(flux_region, time_region)
FluxQuadrature(flux_region, time_region) == simpson(flux_region, time_region)

\* a missing column recorded as a not-a-number area instead of being raised
OnMissingColumn_Sentinel == [kind |-> "ok", area |-> NaN, baseline |-> <<>>, mask |-> <<>>]

\* raise KeyError(f"Missing column: ...")
OnMissingColumn == Raised("KeyError")

integrate_photon_flux(d, time_key, photon_key, photon_scale, integration_range, show_plot, save_plot) ==
    IF MissingColumn(d, time_key, photon_key)
    THEN OnMissingColumn
    ELSE LET time == d[time_key]
             photon_flux == [k \in 1..Len(d[photon_key]) |->
                                RMul(d[photon_key][k], Num(photon_scale))]
             t_min == integration_range.lo * SecondsPerMinute
             t_max == integration_range.hi * SecondsPerMinute
             mask == WindowMask(time, t_min, t_max)
             time_region == IF integration_range.given THEN SelectMask(time, mask)
                            ELSE time
             flux_region == IF integration_range.given THEN SelectMask(photon_flux, mask)
                            ELSE photon_flux
         IN  IF TooFewForFlux(time_region)
             THEN Raised("ValueError")
             ELSE IF (show_plot \/ save_plot) /\ ~integration_range.given
                  \* the plot title reads t_min, bound only when a range was given
                  THEN Raised("UnboundLocalError")
                  ELSE [kind |-> "ok",
                        area |-> FluxQuadrature(flux_region, time_region),
                        baseline |-> <<>>,
                        mask |-> <<>>]

(***************************************************************************)
(* integrate_multiple_masses and main.                                     *)
(***************************************************************************)
\* x_min = x_min_min * 60 ; x_max = x_max_min * 60
ToSeconds(v) == v * SecondsPerMinute

\* the keys of an insertion-ordered mapping, in order
Keys(m) == [k \in 1..Len(m) |-> m[k][1]]

HasKey(m, key) == \E k \in 1..Len(m) : m[k][1] = key

\* m[key], for a key of m
Lookup(m, key) == m[CHOOSE k \in 1..Len(m) : m[k][1] = key][2]

\* a mapping that forgets its earlier entries at every store
DictSet_Forgetful(m, key, value) == <<<<key, value>>>>

\* m[key] = value : a known key keeps its position, a new key goes last
DictSet(m, key, value) ==
    IF HasKey(m, key)
    THEN [k \in 1..Len(m) |-> IF m[k][1] = key THEN <<key, value>> ELSE m[k]]
    ELSE Append(m, <<key, value>>)

\* the body of the try block for one channel m
IntegrateOneMass(d, x, m, lo, hi, correct_baseline, show_plots, save_plots) ==
    IF m \notin DOMAIN d
    THEN Raised("KeyError")
    ELSE integrate_signal(x, d[m], lo, hi, correct_baseline, show_plots, save_plots)

\* a failed channel left out of the mapping
RecordOutcome_SkipFailed(res, m, r) ==
    IF r.kind = "ok" THEN DictSet(res, m, r.area) ELSE res

\* results[m] = area, or results[m] = np.nan in the except branch
RecordOutcome(res, m, r) ==
    IF r.kind = "ok" THEN DictSet(res, m, r.area) ELSE DictSet(res, m, NaN)

\* f"{area:.6e}": sign, seven significant digits and decimal exponent, or nan
RECURSIVE Normalise(_, _, _)
Normalise(a, b, e) ==
    IF a >= 10 * b THEN Normalise(a, 10 * b, e + 1)
    ELSE IF a < b THEN Normalise(10 * a, b, e - 1)
    ELSE <<a, b, e>>

RECURSIVE Digits(_, _, _, _)
\* the first n digits of a / b (1 <= a / b < 10) after the digits in acc, rounded
Digits(a, b, n, acc) ==
    IF n = 0 THEN (IF 2 * a >= 10 * b THEN acc + 1 ELSE acc)
    ELSE Digits(10 * (a % b), b, n - 1, 10 * acc + (a \div b))

SignificantDigits == 7

Format6e(v) ==
    IF IsNaN(v) THEN [nan |-> TRUE, negative |-> FALSE, digits |-> 0, exponent |-> 0]
    ELSE IF v[1] = 0 THEN [nan |-> FALSE, negative |-> FALSE, digits |-> 0, exponent |-> 0]
    ELSE LET n == Normalise(Abs(v[1]), v[2], 0)
             m == Digits(n[1], n[2], SignificantDigits, 0)
             carry == m >= 10000000
         IN  [nan |-> FALSE, negative |-> v[1] < 0,
              digits |-> IF carry THEN m \div 10 ELSE m,
              exponent |-> IF carry THEN n[3] + 1 ELSE n[3]]

\* the lines of the report: one per entry of results, then the photon flux
ReportLines(res, flux) ==
    <<[key |-> "Mass", text |-> Format6e(Zero), header |-> TRUE]>>
    \o [k \in 1..Len(res) |-> [key |-> res[k][1], text |-> Format6e(res[k][2]),
                               header |-> FALSE]]
    \o <<[key |-> "Photon_Flux", text |-> Format6e(flux), header |-> FALSE]>>

(***************************************************************************)
(* State.                                                                  *)
(***************************************************************************)
VARIABLES
    args,          \* arguments of a direct call of one of the integrators
    ret,           \* what that call returned or raised; NotCalled before the call
    data,          \* the table read by main: column name -> samples
    cfg,           \* the configuration passed to main
    pc,            \* position of main
    x_min, x_max,  \* integrate_multiple_masses: the window after conversion
    idx,           \* integrate_multiple_masses: position in mass_keys
    bound,         \* the local names of main that are bound
    results,       \* the batch mapping, as an insertion-ordered list of <<key, area>>
    photon_area,   \* main's photon_area
    report,        \* INTEGRATION_RESULTS_FILE: its state and the lines written
    log            \* channels named in a "[WARN] Could not integrate" line

vars == <<args, ret, data, cfg, pc, x_min, x_max, idx, bound, results, photon_area,
          report, log>>

mainVars == <<data, cfg, pc, x_min, x_max, idx, bound, results, photon_area, report, log>>

NoFile == [state |-> "absent", lines |-> <<>>]

\* main is not running: the state of a specification that calls one function directly
MainIdle ==
    /\ data = <<>>
    /\ cfg = <<>>
    /\ pc = "idle"
    /\ x_min = 0
    /\ x_max = 0
    /\ idx = 0
    /\ bound = {}
    /\ results = <<>>
    /\ photon_area = NaN
    /\ report = NoFile
    /\ log = <<>>

(***************************************************************************)
(* Inputs.                                                                 *)
(***************************************************************************)
IsIncreasing(s) == \A k \in 1..(Len(s) - 1) : s[k] < s[k + 1]

RECURSIVE Ascending(_)
\* the elements of a finite set of integers, in increasing order
Ascending(S) ==
    IF S = {} THEN <<>>
    ELSE LET m == CHOOSE v \in S : \A w \in S : v <= w
         IN  <<m>> \o Ascending(S \ {m})

\* strictly increasing x axes on the grid 0..MaxX, and the same axes reversed
IncreasingAxes == {Ascending(S) : S \in (SUBSET (0..MaxX)) \ {{}}}

MonotoneAxes == IncreasingAxes \cup {Reverse(s) : s \in IncreasingAxes}

SampleValues == {Num(v) : v \in 0..MaxY}

Signals(n) == [1..n -> SampleValues]

\* photon-current columns: every sample is 0 or MaxY
Currents(n) == [1..n -> {Zero, Num(MaxY)}]

(***************************************************************************)
(* SpecSignal: integrate_signal called directly.                           *)
(***************************************************************************)
\* a trace of six samples one second apart with a spike at the fifth
SpikeX == <<0, 1, 2, 3, 4, 5>>

SpikeY == <<Num(10), Num(12), Num(11), Num(13), Num(50), Num(12)>>

InitSignal ==
    /\ \/ \E x \in MonotoneAxes, lo \in 0..MaxX, hi \in 0..MaxX, cb \in BOOLEAN :
            \E y \in Signals(Len(x)) :
               args = [x |-> x, y |-> y, x_min |-> lo, x_max |-> hi, correct_baseline |-> cb,
                       show_plot |-> FALSE, save_plot |-> FALSE]
       \/ \E cb \in BOOLEAN :
            args = [x |-> SpikeX, y |-> SpikeY, x_min |-> 0, x_max |-> 5,
                    correct_baseline |-> cb, show_plot |-> FALSE, save_plot |-> FALSE]
    /\ ret = NotCalled
    /\ MainIdle

CallIntegrateSignal ==
    /\ pc = "idle"
    /\ ret = NotCalled
    /\ ret' = integrate_signal(args.x, args.y, args.x_min, args.x_max, args.correct_baseline,
                               args.show_plot, args.save_plot)
    /\ UNCHANGED <<args, mainVars>>

NextSignal == CallIntegrateSignal

SpecSignal == InitSignal /\ [][NextSignal]_vars

(***************************************************************************)
(* Claims about integrate_signal, checked under SpecSignal.                *)
(***************************************************************************)
SignalCalled == pc = "idle" /\ ret.kind # "none" /\ "correct_baseline" \in DOMAIN args

\* the number of samples of the call's x that lie in its window
SelectedBySignalCall ==
    Cardinality({k \in 1..Len(args.x) : args.x[k] >= args.x_min /\ args.x[k] <= args.x_max})

\* C4: integrate_signal raises the range error (ValueError) to its caller whenever
\* the window selects fewer than 3 samples, and returns an area when the window
\* selects exactly 3 samples.
C4_FloorOfThree ==
    SignalCalled =>
        /\ SelectedBySignalCall < 3 => ret.kind = "ValueError"
        /\ SelectedBySignalCall = 3 => ret.kind = "ok" /\ ~IsNaN(ret.area)

C4_Witness_ExactlyThree ==
    /\ SignalCalled
    /\ SelectedBySignalCall = 3
    /\ Len(args.x) > 3
    /\ ret.kind = "ok"

\* C5: orientation invariance: for strictly increasing x and a valid window, the
\* call on the reversed arrays (x decreasing) over the same window returns the
\* same area, with the same sign, as the call on the arrays as given.
C5_OrientationInvariance ==
    (SignalCalled /\ ret.kind = "ok" /\ IsIncreasing(args.x)) =>
        LET reversed == integrate_signal(Reverse(args.x), Reverse(args.y),
                                         args.x_min, args.x_max, args.correct_baseline,
                                         args.show_plot, args.save_plot)
        IN  reversed.kind = "ok" /\ reversed.area = ret.area

\* the signal of the call is constant
ConstantSignal == \A k \in 1..Len(args.y) : args.y[k] = args.y[1]

\* C10: for strictly increasing x, a constant signal and a window selecting at
\* least 3 samples, integrate_signal with baseline correction returns area 0 and
\* a baseline equal to the constant at every selected sample.
C10_ConstantSignalCancels ==
    (SignalCalled /\ IsIncreasing(args.x) /\ ConstantSignal /\ args.correct_baseline
        /\ SelectedBySignalCall >= 3) =>
        /\ ret.kind = "ok"
        /\ ret.area = Zero
        /\ \A k \in 1..Len(ret.baseline) : ret.baseline[k] = args.y[1]

C10_Witness_NonzeroConstant ==
    /\ SignalCalled
    /\ IsIncreasing(args.x)
    /\ ConstantSignal
    /\ args.y[1] # Zero
    /\ args.correct_baseline
    /\ SelectedBySignalCall >= 3
    /\ ret.kind = "ok"
    /\ ret.area = Zero

\* the positions of the call's x that lie in its window, in increasing order
SelectedPositions ==
    Ascending({k \in 1..Len(args.x) : args.x[k] >= args.x_min /\ args.x[k] <= args.x_max})

\* C12 as stated: both the baseline and the mask returned by integrate_signal are
\* aligned to the full x array: each has the length of x.
C12_BaselineAndMaskAlignedToX ==
    (SignalCalled /\ ret.kind = "ok") =>
        /\ Len(ret.mask) = Len(args.x)
        /\ Len(ret.baseline) = Len(args.x)

\* C12 as amended: the mask has the length of x and entry i tells whether sample i
\* lies in the window; the baseline has one entry per selected sample, entry j
\* belonging to the j-th selected sample (with baseline correction it meets the
\* signal at the first and last selected sample, without it is zero), so it has
\* the length of x only when the window selects every sample.
C12_MaskAlignedBaselineOnRegion ==
    (SignalCalled /\ ret.kind = "ok") =>
        /\ Len(ret.mask) = Len(args.x)
        /\ \A i \in 1..Len(args.x) :
              ret.mask[i] <=> (args.x[i] >= args.x_min /\ args.x[i] <= args.x_max)
        /\ Len(ret.baseline) = Len(SelectedPositions)
        /\ (Len(ret.baseline) = Len(args.x)) <=> (\A i \in 1..Len(args.x) : ret.mask[i])
        /\ LET n == Len(SelectedPositions)
           IN  IF args.correct_baseline
               THEN /\ ret.baseline[1] = args.y[SelectedPositions[1]]
                    /\ ret.baseline[n] = args.y[SelectedPositions[n]]
               ELSE \A j \in 1..n : ret.baseline[j] = Zero

\* a window that leaves out the first sample: the baseline is shorter than x
C12_Witness_RegionShorterThanX ==
    /\ SignalCalled
    /\ ret.kind = "ok"
    /\ args.correct_baseline
    /\ ~ret.mask[1]
    /\ Len(ret.mask) = Len(args.x)
    /\ Len(ret.baseline) = Len(args.x) - 1

\* C13: two-point secant baseline: with correct_baseline true (and distinct first
\* and last selected x) every baseline value lies on the line through the first
\* and last selected samples, so the corrected signal is zero at both; with
\* correct_baseline false the baseline is zero at every selected sample and the
\* area is the quadrature of the raw selected signal.
C13_TwoPointSecantBaseline ==
    (SignalCalled /\ ret.kind = "ok") =>
        LET P == SelectedPositions
            n == Len(P)
            x_first == args.x[P[1]]
            x_last == args.x[P[n]]
            y_first == args.y[P[1]]
            y_last == args.y[P[n]]
        IN  IF args.correct_baseline
            THEN x_first # x_last =>
                    /\ ret.baseline[1] = y_first
                    /\ ret.baseline[n] = y_last
                    /\ \A j \in 1..n :
                          RMul(RSub(ret.baseline[j], y_first), Num(x_last - x_first))
                            = RMul(RSub(y_last, y_first), Num(args.x[P[j]] - x_first))
            ELSE /\ \A j \in 1..n : ret.baseline[j] = Zero
                 /\ ret.area = simpson([j \in 1..n |-> args.y[P[j]]],
                                       [j \in 1..n |-> args.x[P[j]]])

\* the spike trace over [0, 5]: the baseline is the line from (0, 10) to (5, 12)
C13_Witness_SpikeTrace ==
    /\ SignalCalled
    /\ args.x = SpikeX
    /\ args.y = SpikeY
    /\ args.correct_baseline
    /\ ret.kind = "ok"
    /\ ret.baseline = <<Num(10), Rat(52, 5), Rat(54, 5), Rat(56, 5), Rat(58, 5), Num(12)>>

(***************************************************************************)
(* SpecFlux: integrate_photon_flux called directly.                        *)
(***************************************************************************)
TIME_KEY == "TimesExp"

PHOTON_KEY == "PhCurrentA"

TEMP_KEY == "TempAK"

\* strictly increasing time axes, in seconds, on the grid of whole minutes
TimeAxes == {[k \in 1..Len(s) |-> s[k] * SecondsPerMinute] :
                s \in {Ascending(S) : S \in (SUBSET (0..MaxMin)) \ {{}}}}

\* tables holding a time column and a photon-current column of the same length,
\* and the tables with one of the two columns absent
FluxTables ==
    LET full == UNION {{[c \in {TIME_KEY, PHOTON_KEY} |->
                            IF c = TIME_KEY THEN t ELSE y] : y \in Currents(Len(t))} :
                        t \in TimeAxes}
        wide == {d \in full : Len(d[TIME_KEY]) = MaxMin + 1}
    IN  full \cup {[c \in {TIME_KEY} |-> d[c]] : d \in wide}
             \cup {[c \in {PHOTON_KEY} |-> d[c]] : d \in wide}
             \cup {<<>>}

Windows == {w \in (0..MaxMin) \X (0..MaxMin) : w[1] <= w[2]}

Ranges == {Range(w[1], w[2]) : w \in Windows} \cup {NoRange}

InitFlux ==
    /\ \E d \in FluxTables, s \in 1..MaxScale, r \in Ranges, sp \in BOOLEAN, sv \in BOOLEAN :
            args = [data |-> d, time_key |-> TIME_KEY, photon_key |-> PHOTON_KEY,
                    photon_scale |-> s, integration_range |-> r,
                    show_plot |-> sp, save_plot |-> sv]
    /\ ret = NotCalled
    /\ MainIdle

CallIntegratePhotonFlux ==
    /\ pc = "idle"
    /\ ret = NotCalled
    /\ ret' = integrate_photon_flux(args.data, args.time_key, args.photon_key,
                                    args.photon_scale, args.integration_range,
                                    args.show_plot, args.save_plot)
    /\ UNCHANGED <<args, mainVars>>

NextFlux == CallIntegratePhotonFlux

SpecFlux == InitFlux /\ [][NextFlux]_vars

(***************************************************************************)
(* Claims about integrate_photon_flux, checked under SpecFlux.             *)
(***************************************************************************)
FluxCalled == pc = "idle" /\ ret.kind # "none" /\ "photon_scale" \in DOMAIN args

FluxColumnsPresent == {args.time_key, args.photon_key} \subseteq DOMAIN args.data

\* positions of the time samples inside the window given in minutes
FluxSelected ==
    {k \in 1..Len(args.data[args.time_key]) :
        /\ args.data[args.time_key][k] >= 60 * args.integration_range.lo
        /\ args.data[args.time_key][k] <= 60 * args.integration_range.hi}

\* C7: when the time key or the flux-source key is absent from the table,
\* integrate_photon_flux fails with the missing-column error (KeyError) whatever
\* the window and the flags: a raised error, never a returned (not-a-number) area.
C7_MissingColumnIsHardFailure ==
    (FluxCalled /\ ~FluxColumnsPresent) => ret.kind = "KeyError"

C7_Witness_OnlyFluxSourceMissing ==
    /\ FluxCalled
    /\ args.time_key \in DOMAIN args.data
    /\ args.photon_key \notin DOMAIN args.data
    /\ args.integration_range = Range(0, 0)
    /\ ret.kind = "KeyError"

\* C8: with both columns present and a window given, integrate_photon_flux raises
\* the range error when the window selects fewer than 2 samples and returns an
\* area when it selects 2 or more; integrate_signal over the same samples and
\* the same window (in seconds) returns an area only from 3 selected samples on.
C8_FluxFloorOfTwo ==
    (FluxCalled /\ FluxColumnsPresent /\ args.integration_range.given) =>
        LET n == Cardinality(FluxSelected)
            channel == integrate_signal(args.data[args.time_key],
                                        args.data[args.photon_key],
                                        60 * args.integration_range.lo,
                                        60 * args.integration_range.hi, FALSE, FALSE, FALSE)
        IN  /\ n < 2 => ret.kind = "ValueError"
            /\ n >= 2 => ret.kind = "ok" /\ ~IsNaN(ret.area)
            /\ n < 3 => channel.kind = "ValueError"
            /\ n >= 3 => channel.kind = "ok"

C8_Witness_ExactlyTwo ==
    /\ FluxCalled
    /\ FluxColumnsPresent
    /\ args.integration_range.given
    /\ Cardinality(FluxSelected) = 2
    /\ ret.kind = "ok"

\* the source current of the call is the constant c
ConstantSource(c) ==
    \A k \in 1..Len(args.data[args.photon_key]) : args.data[args.photon_key][k] = Num(c)

\* C9: no baseline subtraction: for a constant source current c, a scale s and a
\* window in minutes selecting the time samples t_first..t_last (at least 2),
\* integrate_photon_flux returns s * c * (t_last - t_first).
C9_ConstantFluxArea ==
    (FluxCalled /\ FluxColumnsPresent /\ args.integration_range.given
        /\ Cardinality(FluxSelected) >= 2) =>
        \A c \in 0..MaxY :
            ConstantSource(c) =>
                LET time == args.data[args.time_key]
                    first == CHOOSE k \in FluxSelected : \A j \in FluxSelected : k <= j
                    last == CHOOSE k \in FluxSelected : \A j \in FluxSelected : k >= j
                IN  /\ ret.kind = "ok"
                    /\ ret.area = Num(args.photon_scale * c * (time[last] - time[first]))

\* the scenario of five samples one minute apart and the window [0, 4] minutes
C9_Witness_FiveSamplesFourMinutes ==
    /\ FluxCalled
    /\ FluxColumnsPresent
    /\ args.data[args.time_key] = <<0, 60, 120, 180, 240>>
    /\ ConstantSource(MaxY)
    /\ args.photon_scale = MaxScale
    /\ args.integration_range = Range(0, 4)
    /\ ret.kind = "ok"
    /\ ret.area = Num(MaxScale * MaxY * 240)

(***************************************************************************)
(* Spec: main from the loaded table to the written report.                 *)
(***************************************************************************)
MassKeys == {"A", "B", "MISSING"}

RECURSIVE SeqsUpTo(_, _)
\* the sequences over S of length at most n
SeqsUpTo(S, n) ==
    IF n = 0 THEN {<<>>}
    ELSE LET shorter == SeqsUpTo(S, n - 1)
         IN  shorter \cup {Append(q, e) : q \in {r \in shorter : Len(r) = n - 1}, e \in S}

\* the table read from the file: every column has MaxMin + 1 samples
FullTable ==
    [c \in {TIME_KEY, TEMP_KEY, PHOTON_KEY, "A", "B"} |->
        CASE c = TIME_KEY -> [k \in 1..(MaxMin + 1) |-> (k - 1) * SecondsPerMinute]
          [] c = TEMP_KEY -> [k \in 1..(MaxMin + 1) |-> k - 1]
          [] c = PHOTON_KEY -> [k \in 1..(MaxMin + 1) |-> Num(MaxY)]
          [] c = "A" -> [k \in 1..(MaxMin + 1) |-> Num(IF k = 2 THEN MaxY ELSE 0)]
          [] c = "B" -> [k \in 1..(MaxMin + 1) |-> Num(MaxY)]]

Without(d, c) == [k \in (DOMAIN d) \ {c} |-> d[k]]

\* the file may lack the time column or the photon-current column
MainTables == {FullTable, Without(FullTable, PHOTON_KEY), Without(FullTable, TIME_KEY)}

Init ==
    /\ data \in MainTables
    /\ \E mode \in {"time", "temperature"}, w \in Windows, ms \in SeqsUpTo(MassKeys, MaxMasses),
          integrate \in BOOLEAN, save \in BOOLEAN :
            cfg = [ANALYSIS_MODE |-> mode, INTEGRATION_RANGE |-> w, MASSES |-> ms,
                   INTEGRATE_SIGNALS |-> integrate, SAVE_INTEGRATION_RESULTS |-> save,
                   PHOTON_SCALE |-> MaxScale, SHOW_PLOTS |-> TRUE, SAVE_PLOTS |-> TRUE]
    /\ pc = "start"
    /\ args = <<>>
    /\ ret = NotCalled
    /\ x_min = 0
    /\ x_max = 0
    /\ idx = 0
    /\ bound = {}
    /\ results = <<>>
    /\ photon_area = NaN
    /\ report = NoFile
    /\ log = <<>>

\* x_key = cfg["TIME_KEY"] if mode == "time" else cfg["TEMP_KEY"]
x_key == IF cfg.ANALYSIS_MODE = "time" THEN TIME_KEY ELSE TEMP_KEY

\* if cfg.get("INTEGRATE_SIGNALS", True) is false
SkipIntegration ==
    /\ pc = "start"
    /\ ~cfg.INTEGRATE_SIGNALS
    /\ pc' = "save"
    /\ UNCHANGED <<args, ret, data, cfg, x_min, x_max, idx, bound, results, photon_area,
                   report, log>>

\* integrate_multiple_masses up to the loop: x = data[x_key], the window, results = {}
BatchEnter ==
    /\ pc = "start"
    /\ cfg.INTEGRATE_SIGNALS
    /\ IF x_key \in DOMAIN data
       THEN /\ x_min' = ToSeconds(cfg.INTEGRATION_RANGE[1])
            /\ x_max' = ToSeconds(cfg.INTEGRATION_RANGE[2])
            /\ results' = <<>>
            /\ idx' = 1
            /\ pc' = "batch"
            /\ ret' = ret
       ELSE /\ ret' = Raised("KeyError")
            /\ pc' = "crashed"
            /\ UNCHANGED <<x_min, x_max, results, idx>>
    /\ UNCHANGED <<args, data, cfg, bound, photon_area, report, log>>

\* one iteration of "for m in mass_keys": the try block and its except branch
BatchStep ==
    /\ pc = "batch"
    /\ idx <= Len(cfg.MASSES)
    /\ LET m == cfg.MASSES[idx]
           r == IntegrateOneMass(data, data[x_key], m, x_min, x_max, TRUE,
                                 cfg.SHOW_PLOTS, cfg.SAVE_PLOTS)
       IN  /\ results' = RecordOutcome(results, m, r)
           /\ log' = IF r.kind = "ok" THEN log ELSE Append(log, m)
           /\ ret' = r
    /\ idx' = idx + 1
    /\ UNCHANGED <<args, data, cfg, pc, x_min, x_max, bound, photon_area, report>>

\* return results, bound to main's results
BatchReturn ==
    /\ pc = "batch"
    /\ idx > Len(cfg.MASSES)
    /\ bound' = bound \cup {"results"}
    /\ pc' = "flux"
    /\ UNCHANGED <<args, ret, data, cfg, x_min, x_max, idx, results, photon_area, report, log>>

\* photon_area = integrate_photon_flux(...); an exception leaves main
PhotonFlux ==
    /\ pc = "flux"
    /\ LET r == integrate_photon_flux(data, TIME_KEY, PHOTON_KEY, cfg.PHOTON_SCALE,
                                      Range(cfg.INTEGRATION_RANGE[1], cfg.INTEGRATION_RANGE[2]),
                                      cfg.SHOW_PLOTS, cfg.SAVE_PLOTS)
       IN  /\ ret' = r
           /\ IF r.kind = "ok"
              THEN /\ photon_area' = r.area
                   /\ bound' = bound \cup {"photon_area"}
                   /\ pc' = "save"
              ELSE /\ pc' = "crashed"
                   /\ UNCHANGED <<photon_area, bound>>
    /\ UNCHANGED <<args, data, cfg, x_min, x_max, idx, results, report, log>>

\* the report block: open(out_path, "w"), the header, one line per entry of results,
\* the photon flux line; reading an unbound local raises after the file was opened
SaveResults ==
    /\ pc = "save"
    /\ cfg.SAVE_INTEGRATION_RESULTS
    /\ IF "results" \notin bound
       THEN /\ report' = [state |-> "closed", lines |-> SubSeq(ReportLines(<<>>, NaN), 1, 1)]
            /\ ret' = Raised("UnboundLocalError")
            /\ pc' = "crashed"
       ELSE IF "photon_area" \notin bound
       THEN /\ report' = [state |-> "closed",
                          lines |-> SubSeq(ReportLines(results, NaN), 1, Len(results) + 1)]
            /\ ret' = Raised("UnboundLocalError")
            /\ pc' = "crashed"
       ELSE /\ report' = [state |-> "closed", lines |-> ReportLines(results, photon_area)]
            /\ ret' = ret
            /\ pc' = "done"
    /\ UNCHANGED <<args, data, cfg, x_min, x_max, idx, bound, results, photon_area, log>>

\* if cfg.get("SAVE_INTEGRATION_RESULTS", True) is false
SkipSave ==
    /\ pc = "save"
    /\ ~cfg.SAVE_INTEGRATION_RESULTS
    /\ pc' = "done"
    /\ UNCHANGED <<args, ret, data, cfg, x_min, x_max, idx, bound, results, photon_area,
                   report, log>>

Next ==
    \/ SkipIntegration
    \/ BatchEnter
    \/ BatchStep
    \/ BatchReturn
    \/ PhotonFlux
    \/ SaveResults
    \/ SkipSave

Spec == Init /\ [][Next]_vars

(***************************************************************************)
(* Claims about integrate_multiple_masses and main, checked under Spec.    *)
(***************************************************************************)
\* the samples of the x axis inside the window the batch call works with
SelectedByBatch ==
    {k \in 1..Len(data[x_key]) : data[x_key][k] >= x_min /\ data[x_key][k] <= x_max}

\* integrating channel m fails: its key is absent or the window is too narrow
ChannelFails(m) == m \notin DOMAIN data \/ Cardinality(SelectedByBatch) < 3

\* one iteration of the channel loop is taken
LoopIteration == pc = "batch" /\ idx' = idx + 1

\* C1: in integrate_multiple_masses, when integrating the channel at position i
\* fails, the result maps that channel to not-a-number, every entry recorded for
\* another channel before is kept unchanged (a channel that integrates gets a
\* numeric area), and the loop goes on: it is left only after the last channel,
\* with an entry for every requested channel.
C1_PerChannelIsolation ==
    [][/\ LoopIteration =>
            LET m == cfg.MASSES[idx]
            IN  /\ HasKey(results', m)
                /\ ChannelFails(m) => IsNaN(Lookup(results', m)) /\ log' = Append(log, m)
                /\ ~ChannelFails(m) => ~IsNaN(Lookup(results', m)) /\ log' = log
                /\ \A k \in 1..Len(results) :
                      results[k][1] # m => results'[k] = results[k]
                /\ pc' = "batch"
       /\ (pc = "batch" /\ pc' # "batch") =>
            /\ idx > Len(cfg.MASSES)
            /\ \A i \in 1..Len(cfg.MASSES) : HasKey(results', cfg.MASSES[i])]_vars

\* a failed channel between two channels that integrated
C1_Witness_FailureInTheMiddle ==
    /\ pc = "batch"
    /\ idx = 4
    /\ cfg.MASSES = <<"A", "MISSING", "B">>
    /\ Len(results) = 3
    /\ ~IsNaN(results[1][2])
    /\ results[2] = <<"MISSING", NaN>>
    /\ ~IsNaN(results[3][2])

RECURSIVE FirstOccurrences(_)
\* a list of keys without the repetitions of a key already listed
FirstOccurrences(q) ==
    IF q = <<>> THEN <<>>
    ELSE LET rest == FirstOccurrences(SubSeq(q, 1, Len(q) - 1))
             last == q[Len(q)]
         IN  IF \E k \in 1..Len(rest) : rest[k] = last THEN rest ELSE Append(rest, last)

\* C2: integrate_multiple_masses does not raise on a channel-level failure (it
\* raises only when the x-axis column itself is absent) and returns a mapping
\* whose keys are the requested channel keys in the iteration order of
\* channel_keys, numeric for each channel that integrated and not-a-number for
\* each that did not.
C2_MappingOfRequestedKeys ==
    /\ "results" \in bound =>
        /\ Keys(results) = FirstOccurrences(cfg.MASSES)
        /\ \A k \in 1..Len(results) : IsNaN(results[k][2]) <=> ChannelFails(results[k][1])
    /\ (pc = "crashed" /\ cfg.INTEGRATE_SIGNALS /\ "results" \notin bound) =>
        x_key \notin DOMAIN data

C2_Witness_ABMissing ==
    /\ "results" \in bound
    /\ cfg.MASSES = <<"A", "B", "MISSING">>
    /\ Keys(results) = <<"A", "B", "MISSING">>
    /\ ~IsNaN(results[1][2])
    /\ ~IsNaN(results[2][2])
    /\ IsNaN(results[3][2])

\* main has ended, by returning or by an exception
MainEnded == pc \in {"done", "crashed"}

\* the report lists channel m, with the not-a-number marker iff the channel failed
ReportLists(m) ==
    \E k \in 1..Len(report.lines) :
        /\ report.lines[k].key = m
        /\ ~report.lines[k].header
        /\ report.lines[k].text.nan <=> ChannelFails(m)

\* C3: in every run of main that performs integration and saves results (and in
\* which the batch integrator returned its mapping), the final report is written
\* and lists every requested channel, with a not-a-number marker for the
\* channels that failed, whatever failures occurred in the batch and
\* photon-flux steps.
C3_ReportAlwaysWritten ==
    (MainEnded /\ cfg.INTEGRATE_SIGNALS /\ cfg.SAVE_INTEGRATION_RESULTS
        /\ "results" \in bound /\ cfg.MASSES # <<>>) =>
        /\ report.state = "closed"
        /\ \A i \in 1..Len(cfg.MASSES) : ReportLists(cfg.MASSES[i])

\* C6: the window reaches the batch integrator in minutes in time mode and in
\* native temperature units in temperature mode; the conversion to seconds is
\* applied to time-based windows only, so in temperature mode a window [T1, T2]
\* selects exactly the samples whose x value lies in [T1, T2].
C6_UnitsBoundary ==
    pc = "batch" =>
        IF cfg.ANALYSIS_MODE = "time"
        THEN /\ x_min = 60 * cfg.INTEGRATION_RANGE[1]
             /\ x_max = 60 * cfg.INTEGRATION_RANGE[2]
        ELSE SelectedByBatch =
                {k \in 1..Len(data[TEMP_KEY]) :
                    /\ data[TEMP_KEY][k] >= cfg.INTEGRATION_RANGE[1]
                    /\ data[TEMP_KEY][k] <= cfg.INTEGRATION_RANGE[2]}

(***************************************************************************)
(* SpecRender: integrate_signal called directly with its render flags, on  *)
(* channels that may hold not-a-number samples.                            *)
(***************************************************************************)
\* a channel whose samples are all not-a-number
NaNSignal(n) == [k \in 1..n |-> NaN]

\* a channel whose first sample alone is not-a-number
FirstNaNSignal(n) == [k \in 1..n |-> IF k = 1 THEN NaN ELSE Num(MaxY)]

RenderSignals(n) == Signals(n) \cup {NaNSignal(n), FirstNaNSignal(n)}

AxisWindows == {w \in (0..MaxX) \X (0..MaxX) : w[1] <= w[2]}

InitRender ==
    /\ \E x \in IncreasingAxes, w \in AxisWindows, cb \in BOOLEAN, sp \in BOOLEAN,
          sv \in BOOLEAN :
         \E y \in RenderSignals(Len(x)) :
            args = [x |-> x, y |-> y, x_min |-> w[1], x_max |-> w[2],
                    correct_baseline |-> cb, show_plot |-> sp, save_plot |-> sv]
    /\ ret = NotCalled
    /\ MainIdle

NextRender == CallIntegrateSignal

SpecRender == InitRender /\ [][NextRender]_vars

(***************************************************************************)
(* Claims about integrate_signal, checked under SpecRender.                *)
(***************************************************************************)
\* C11: a render flag (show_plot or save_plot) has no effect on what
\* integrate_signal returns: for the same x, y, window and correct_baseline the
\* call with the flags set returns the area, baseline and mask of the call with
\* the flags clear.
C11_RenderFlagsHaveNoEffect ==
    SignalCalled =>
        ret = integrate_signal(args.x, args.y, args.x_min, args.x_max,
                               args.correct_baseline, FALSE, FALSE)

\* every sample of the call's channel is not-a-number
NonFiniteOnly == \A k \in 1..Len(args.y) : IsNaN(args.y[k])

\* C14: the core rejects a channel whose samples are all non-finite: integrating
\* it is an error of integrate_signal, never a returned area.
C14_NonFiniteChannelRejected ==
    (SignalCalled /\ NonFiniteOnly) => ret.kind # "ok"

(***************************************************************************)
(* Claims about the report step of main, checked under Spec.               *)
(***************************************************************************)
\* C15: for every combination of INTEGRATE_SIGNALS and SAVE_INTEGRATION_RESULTS
\* the report step runs only after the batch mapping and the photon-flux area
\* were produced in the same run: the report file is never opened while they
\* are undefined, and a report that exists is complete.
C15_ReportOnlyAfterResults ==
    report.state # "absent" =>
        /\ {"results", "photon_area"} \subseteq bound
        /\ report.state = "closed"
        /\ report.lines = ReportLines(results, photon_area)

(***************************************************************************)
(* Claim about integrate_photon_flux without a range, under SpecFlux.      *)
(***************************************************************************)
\* C16: with integration_range left at None, both columns present and at least 2
\* samples, integrate_photon_flux integrates the whole trace and returns the
\* area, for every setting of show_plot and save_plot.
C16_WholeTraceWhenNoRange ==
    (FluxCalled /\ FluxColumnsPresent /\ ~args.integration_range.given
        /\ Len(args.data[args.time_key]) >= 2) =>
        /\ ret.kind = "ok"
        /\ ret.area = simpson([k \in 1..Len(args.data[args.photon_key]) |->
                                  RMul(args.data[args.photon_key][k], Num(args.photon_scale))],
                              args.data[args.time_key])

====
